---- MODULE Spec2Model ----
(***************************************************************************)
(* State-machine model of src/index.js: the Slack bot that relays PDFs and *)
(* check-marked messages of a "deal###" channel into Pipedrive.            *)
(*                                                                         *)
(* Strings the code inspects (channel names, file names, comments) are     *)
(* sequences of one-character strings, so that the regular expressions of  *)
(* the code are computed and not assumed.  A handler is a process whose    *)
(* pc is the await it is suspended at; one step of a handler is the        *)
(* external call it awaits together with the synchronous code that runs    *)
(* when the call returns, up to the next await.                            *)
(***************************************************************************)
EXTENDS Integers, Sequences, FiniteSets, TLC

(* ------------------------------ bounds --------------------------------- *)
MaxParts == 4
MaxEvents == 2
MaxTicks == 2
MaxRenames == 1

(* ------------------------------ strings -------------------------------- *)
UpperCase == <<"A","B","C","D","E","F","G","H","I","J","K","L","M",
               "N","O","P","Q","R","S","T","U","V","W","X","Y","Z">>
LowerCase == <<"a","b","c","d","e","f","g","h","i","j","k","l","m",
               "n","o","p","q","r","s","t","u","v","w","x","y","z">>
Digits == {"0","1","2","3","4","5","6","7","8","9"}

\* Canonicalize of a regular expression with the i flag, on ASCII letters
CanonMutCaseSensitive(c) == c
Canon(c) ==
    IF \E i \in 1..26 : LowerCase[i] = c
    THEN UpperCase[CHOOSE i \in 1..26 : LowerCase[i] = c]
    ELSE c

IsDigit(c) == c \in Digits

\* the pattern word pat (given in upper case) matches s at position i, ignoring case
MatchesAtI(s, i, pat) ==
    /\ i >= 1
    /\ i + Len(pat) - 1 <= Len(s)
    /\ \A j \in 1..Len(pat) : Canon(s[i + j - 1]) = pat[j]

\* \d+ is greedy: the end of the maximal run of digits that starts at i
RECURSIVE DigitRunEnd(_, _)
DigitRunEnd(s, i) ==
    IF i + 1 <= Len(s) /\ IsDigit(s[i + 1]) THEN DigitRunEnd(s, i + 1) ELSE i

W_DEAL == <<"D","E","A","L">>
W_WO == <<"W","O","_">>
W_CWO == <<"C","O","M","P","L","E","T","E","D"," ","W","O","R","K"," ","O","R","D","E","R">>
W_AID == <<"A","I","D",":">>

\* the value of a failed match (null, line 62); a match of \d+ is never empty
NoDeal == <<>>

\* String.prototype.match of /deal(\d+)/i: the leftmost position the pattern matches at
RECURSIVE DealScan(_, _)
DealScan(s, i) ==
    IF i + 4 > Len(s) THEN NoDeal
    ELSE IF MatchesAtI(s, i, W_DEAL) /\ IsDigit(s[i + 4])
         THEN SubSeq(s, i + 4, DigitRunEnd(s, i + 4))
         ELSE DealScan(s, i + 1)

extractMutAnyDigits(name) ==
    IF \E i \in 1..Len(name) : IsDigit(name[i])
    THEN LET i == CHOOSE i \in 1..Len(name) :
                     IsDigit(name[i]) /\ \A j \in 1..(i - 1) : ~IsDigit(name[j])
         IN SubSeq(name, i, DigitRunEnd(name, i))
    ELSE NoDeal
extractDealIdFromChannelName(name) == DealScan(name, 1)

(* ------------------------------ state ---------------------------------- *)
VARIABLES
    xname, xresult, xpc,   \* the identifier resolver called on its own
    clock,                 \* Date.now(), in milliseconds
    ticks,                 \* how often the clock has advanced
    delivered,             \* number of events delivered so far
    renames,               \* number of channel renames so far
    cfg,                   \* the configuration read from the environment
    faults,                \* the external calls that may fail in this run
    chanName,              \* Slack: the current name of each channel
    fileMeta,              \* Slack: the metadata files.info returns for each file
    msgFiles,              \* Slack: the files of the message at each timestamp
    noteDedupe,            \* the Map noteDedupe; 0 stands for "no entry"
    crmNotes,              \* Pipedrive: the notes stored, as [deal, content]
    noteWrites,            \* history: the successful create-note calls, in order
    crmFileCalls,          \* history: the create-file calls, in order
    tmpFiles,              \* the files that exist under /tmp
    prompts,               \* Slack: the archive confirmation prompts issued
    archived,              \* Slack: the channels that are archived
    hs                     \* the handlers, one per delivered event

vars == <<xname, xresult, xpc, clock, ticks, delivered, renames, cfg, faults, chanName,
          fileMeta, msgFiles, noteDedupe, crmNotes, noteWrites, crmFileCalls,
          tmpFiles, prompts, archived, hs>>

xvars == <<xname, xresult, xpc>>
worldvars == <<cfg, faults, fileMeta, msgFiles>>

Channels == {"C1"}
Stamps == {"t1", "t2"}
FileIds == {"F1", "F2"}
Keys == Channels \X Stamps
\* the handlers in flight at one time: a handler that has ended leaves its slot to
\* the handler of a later event
Handlers == {1, 2}

DEDUPE_MS == 5 * 60 * 1000
TickSteps == {1, DEDUPE_MS - 1}

PD_NOTE_REACTIONS == {"white_check_mark", "heavy_check_mark", "ballot_box_with_check"}
ARCHIVE_REACTIONS == {"v", "end", "checkered_flag", "file_cabinet", "archivebox"}

isArchiveAllowedMutAnyone(userId) == TRUE
isArchiveAllowedMutListed(userId) == userId \in cfg.ARCHIVE_ALLOWED
isArchiveAllowed(userId) ==
    cfg.ARCHIVE_ALLOWED = {} \/ userId \in cfg.ARCHIVE_ALLOWED

\* cacheKey = `${channelId}:${ts}`
CacheKey(channelId, ts) == <<channelId, ts>>

recentlyNotedMutNever(k) == FALSE
recentlyNotedMutInclusive(k) ==
    LET t == noteDedupe[k]
    IN  t # 0 /\ clock - t <= DEDUPE_MS
recentlyNoted(k) ==
    LET t == noteDedupe[k]
    IN  t # 0 /\ clock - t < DEDUPE_MS

\* noteDedupe after the response of create-note: set only if (noteRes?.success)
DedupeAfterNoteMutAlways(map, k, success, now) == [map EXCEPT ![k] = now]
DedupeAfterNote(map, k, success, now) ==
    IF success THEN [map EXCEPT ![k] = now] ELSE map

\* chat.getPermalink's answer for a message; `undefined` when the lookup failed (line 287)
UNDEFINED == <<"undefined", "undefined">>
PermalinkOf(channelId, ts) == <<channelId, ts>>

\* (n.content || '').includes(permalink): the note text holds the link in its Link: line
ContentIncludes(content, permalink) == content.link = permalink
PermalinkHit(recent, permalink) ==
    \E n \in recent : ContentIncludes(n.content, permalink)

\* `Scope - ${channelName.replace(/-/g, ' ')}.pdf`
ReplaceHyphens(s) == [i \in 1..Len(s) |-> IF s[i] = "-" THEN " " ELSE s[i]]
Renamed(channelName) ==
    <<"S","c","o","p","e"," ","-"," ">> \o ReplaceHyphens(channelName) \o <<".","p","d","f">>

\* IGNORE_FILE_REGEX = /^(WO_|Completed Work Order)/i
IgnoreFileTest(s) == MatchesAtI(s, 1, W_WO) \/ MatchesAtI(s, 1, W_CWO)
\* IGNORE_COMMENT_REGEX = /(Completed Work Order|AID:\d+)/i
IgnoreCommentTest(s) ==
    \E i \in 1..Len(s) :
        \/ MatchesAtI(s, i, W_CWO)
        \/ MatchesAtI(s, i, W_AID) /\ i + 4 <= Len(s) /\ IsDigit(s[i + 4])

NoTmp == [t |-> 0, f |-> "none"]
\* `/tmp/${Date.now()}-${path.basename(fileUrl.split('?')[0])}`
TmpPath(f) == [t |-> clock, f |-> f]

\* the value of a button when the action carries none (line 333: || '{}')
NoValue == [json |-> "absent", channelId |-> "none", dealId |-> NoDeal]

Idle ==
    [pc |-> "idle", ev |-> 0, kind |-> "none", chan |-> "none", ts |-> "none",
     reaction |-> "none", user |-> "none", evFiles |-> <<>>, idx |-> 0,
     file |-> "none", target |-> "none", channelName |-> <<>>, dealId |-> NoDeal,
     permalink |-> UNDEFINED, authorName |-> "none", reactorName |-> "none",
     attachmentsList |-> <<>>, tmp |-> NoTmp, recent |-> {}, listed |-> FALSE,
     calls |-> <<>>, err |-> FALSE, looked |-> FALSE,
     startName |-> <<>>, checkedAt |-> 0, seenWrites |-> 0,
     downloaded |-> {}, unlinkTried |-> {}, hit |-> FALSE, escaped |-> FALSE,
     value |-> NoValue, archiveRes |-> "none", postedTo |-> "none"]

Call(r, api, arg) == [r EXCEPT !.calls = Append(@, [api |-> api, arg |-> arg])]
Return(r) == [r EXCEPT !.pc = "done"]
\* an exception reaches the handler's catch (lines 205, 217, 324): console.error
Caught(r) == [r EXCEPT !.pc = "done", !.err = TRUE]
\* an exception thrown outside every try of the listener: the listener's promise rejects
Escaped(r) == [r EXCEPT !.pc = "done", !.escaped = TRUE]

\* the outcomes of an external call: it succeeds, or fails when this run lets it fail
Outcomes(api) == IF api \in faults THEN {TRUE, FALSE} ELSE {TRUE}

Set(h, r) == hs' = [hs EXCEPT ![h] = r]

\* the slot the handler of the next event runs in
Free(h) == hs[h].pc \in {"idle", "done"}
FreeSlot == CHOOSE h \in Handlers : Free(h) /\ \A g \in Handlers : Free(g) => h <= g
Start(r) ==
    /\ delivered < MaxEvents
    /\ \E h \in Handlers : Free(h)
    /\ delivered' = delivered + 1
    /\ Set(FreeSlot, [r EXCEPT !.ev = delivered + 1])

Tick ==
    /\ ticks < MaxTicks
    /\ \E d \in TickSteps : clock' = clock + d
    /\ ticks' = ticks + 1
    /\ UNCHANGED <<xvars, worldvars, delivered, renames, chanName, noteDedupe, crmNotes,
                   noteWrites, crmFileCalls, tmpFiles, prompts, archived, hs>>

(* ------------------- app.event('reaction_added') ----------------------- *)
envvars == <<xvars, worldvars, clock, ticks, archived>>

\* lines 231-266: the synchronous start of the handler, up to its first await
ReactionStart(e) ==
    LET r0 == [Idle EXCEPT !.kind = "reaction_added", !.chan = e.chan, !.ts = e.ts,
                           !.reaction = e.reaction, !.user = e.user,
                           !.startName = IF e.chan \in Channels THEN chanName[e.chan]
                                         ELSE <<>>]
    IN  IF e.chan = "none" \/ e.ts = "none" THEN Return(r0)
        ELSE IF e.reaction \in ARCHIVE_REACTIONS THEN [r0 EXCEPT !.pc = "a_info"]
        ELSE IF e.reaction \notin PD_NOTE_REACTIONS THEN Return(r0)
        ELSE LET k  == CacheKey(e.chan, e.ts)
                 r1 == [r0 EXCEPT !.checkedAt = clock, !.seenWrites = Len(noteWrites),
                                  !.hit = recentlyNoted(k)]
             IN  IF recentlyNoted(k) THEN Return(r1) ELSE [r1 EXCEPT !.pc = "r_info"]

DeliverReaction(e) ==
    /\ Start(ReactionStart(e))
    /\ UNCHANGED <<envvars, chanName, renames, noteDedupe, crmNotes, noteWrites,
                   crmFileCalls, tmpFiles, prompts>>

\* lines 268-274: conversations.info, then the deal id of the channel's name
RInfo(h) ==
    /\ hs[h].pc = "r_info"
    /\ \E ok \in Outcomes("conversations.info") :
         LET r1   == Call(hs[h], "conversations.info", hs[h].chan)
             name == chanName[hs[h].chan]
             deal == extractDealIdFromChannelName(name)
             r2   == [r1 EXCEPT !.channelName = name, !.dealId = deal, !.looked = TRUE]
         IN  Set(h, IF ~ok THEN Caught(r1)
                    ELSE IF deal = NoDeal THEN [r2 EXCEPT !.pc = "r_post_nodeal"]
                    ELSE [r2 EXCEPT !.pc = "r_hist"])
    /\ UNCHANGED <<envvars, delivered, chanName, renames, noteDedupe, crmNotes, noteWrites,
                   crmFileCalls, tmpFiles, prompts>>

\* a chat.postMessage that is the handler's last statement before it returns
PostAndReturn(h, at, what) ==
    /\ hs[h].pc = at
    /\ \E ok \in Outcomes("chat.postMessage") :
         LET r1 == Call(hs[h], "chat.postMessage", what)
         IN  Set(h, IF ok THEN Return(r1) ELSE Caught(r1))
    /\ UNCHANGED <<envvars, delivered, chanName, renames, noteDedupe, crmNotes, noteWrites,
                   crmFileCalls, tmpFiles, prompts>>

\* line 272
RPostNoDeal(h) == PostAndReturn(h, "r_post_nodeal", "must-include-deal")

\* lines 276-278: conversations.history, limit 1
RHist(h) ==
    /\ hs[h].pc = "r_hist"
    /\ \E out \in {"msg"} \cup (IF "conversations.history" \in faults THEN {"fail"} ELSE {})
                          \cup (IF "history.empty" \in faults THEN {"nomsg"} ELSE {}) :
         LET r1 == Call(hs[h], "conversations.history", hs[h].ts)
         IN  Set(h, CASE out = "fail"  -> Caught(r1)
                      [] out = "nomsg" -> Return(r1)
                      [] OTHER         -> [r1 EXCEPT !.pc = "r_lookups"])
    /\ UNCHANGED <<envvars, delivered, chanName, renames, noteDedupe, crmNotes, noteWrites,
                   crmFileCalls, tmpFiles, prompts>>

\* `${f.name} (${f.filetype})`
Descriptor(f) == [name |-> fileMeta[f].name, filetype |-> fileMeta[f].filetype]

\* lines 280-292: the three lookups of Promise.all, each with its own catch,
\* then the attachment descriptors
RLookups(h) ==
    /\ hs[h].pc = "r_lookups"
    /\ \E aOk \in Outcomes("users.info"), rOk \in Outcomes("users.info"),
          lOk \in Outcomes("chat.getPermalink") :
         LET r  == hs[h]
             r1 == Call(Call(Call(r, "users.info", "author"), "users.info", "reactor"),
                        "chat.getPermalink", r.ts)
             fs == msgFiles[r.ts]
             r2 == [r1 EXCEPT
                      !.authorName = IF aOk THEN "real_name" ELSE "<@msg.user>",
                      !.reactorName = IF rOk THEN "real_name" ELSE "<@event.user>",
                      !.permalink = IF lOk THEN PermalinkOf(r.chan, r.ts) ELSE UNDEFINED,
                      !.evFiles = fs,
                      !.attachmentsList = [i \in 1..Len(fs) |-> Descriptor(fs[i])]]
         IN  Set(h, IF Len(fs) > 0 /\ cfg.REACTION_UPLOAD_FILES
                    THEN [r2 EXCEPT !.pc = "r_dl", !.idx = 1]
                    ELSE [r2 EXCEPT !.pc = "r_list"])
    /\ UNCHANGED <<envvars, delivered, chanName, renames, noteDedupe, crmNotes, noteWrites,
                   crmFileCalls, tmpFiles, prompts>>

\* the next iteration of `for (const f of msg.files)` (line 293), or the code after it
NextAttachmentMutStop(r) == [r EXCEPT !.pc = "r_list", !.tmp = NoTmp]
NextAttachment(r) ==
    IF r.idx < Len(r.evFiles)
    THEN [r EXCEPT !.pc = "r_dl", !.idx = @ + 1, !.tmp = NoTmp]
    ELSE [r EXCEPT !.pc = "r_list", !.tmp = NoTmp]

\* line 295: downloadFile; a failure is caught at line 298
RDownload(h) ==
    /\ hs[h].pc = "r_dl"
    /\ \E ok \in Outcomes("download") :
         LET r   == hs[h]
             f   == r.evFiles[r.idx]
             r1  == Call(r, "download", f)
             tmp == TmpPath(f)
         IN  IF ok
             THEN /\ tmpFiles' = tmpFiles \cup {tmp}
                  /\ Set(h, [r1 EXCEPT !.pc = "r_up", !.tmp = tmp,
                                       !.downloaded = @ \cup {tmp}])
             ELSE /\ tmpFiles' = tmpFiles
                  /\ Set(h, NextAttachment(r1))
    /\ UNCHANGED <<envvars, delivered, chanName, renames, noteDedupe, crmNotes, noteWrites,
                   crmFileCalls, prompts>>

\* the entry of the create-file log
FileCall(h, deal, f, fileName, ok) ==
    [ev |-> hs[h].ev, via |-> hs[h].kind, deal |-> deal, file |-> f, filetype |-> fileMeta[f].filetype,
     name |-> fileName, ok |-> ok]

\* lines 296-300: uploadFileToPipedrive, then fs.unlinkSync inside the same try
RUpload(h) ==
    /\ hs[h].pc = "r_up"
    /\ \E ok \in Outcomes("crm.createFile") :
         LET r  == hs[h]
             f  == r.evFiles[r.idx]
             r1 == Call(r, "crm.createFile", f)
         IN  /\ crmFileCalls' = Append(crmFileCalls,
                                       FileCall(h, r.dealId, f, fileMeta[f].name, ok))
             /\ IF ok
                THEN /\ tmpFiles' = tmpFiles \ {r.tmp}
                     /\ Set(h, NextAttachment([r1 EXCEPT !.unlinkTried = @ \cup {r.tmp}]))
                ELSE /\ tmpFiles' = tmpFiles
                     /\ Set(h, NextAttachment(r1))
    /\ UNCHANGED <<envvars, delivered, chanName, renames, noteDedupe, crmNotes, noteWrites,
                   prompts>>

\* line 305: buildNoteFromSlack
buildNoteFromSlack(r) ==
    [by |-> r.reactorName, channel |-> r.channelName, author |-> r.authorName,
     ts |-> r.ts, link |-> r.permalink, atts |-> r.attachmentsList]

\* line 314: the empty catch of the duplicate check; the handler goes on to line 316
AfterSwallowMutCaught(r) == Caught(r)
AfterSwallow(r) == [r EXCEPT !.pc = "r_note"]

\* lines 308-314: the recent notes of the deal; a failed request is swallowed
RList(h) ==
    /\ hs[h].pc = "r_list"
    /\ \E out \in {"all"} \cup (IF "crm.listNotes" \in faults THEN {"fail"} ELSE {})
                          \cup (IF "crm.listNotes.partial" \in faults THEN {"none"} ELSE {}) :
         LET r      == hs[h]
             r1     == Call(r, "crm.listNotes", "")
             recent == IF out = "all" THEN {n \in crmNotes : n.deal = r.dealId} ELSE {}
             r2     == [r1 EXCEPT !.recent = recent, !.listed = (out # "fail")]
         IN  Set(h, IF out = "fail" THEN AfterSwallow(r2)
                    ELSE IF PermalinkHit(recent, r.permalink)
                         THEN [r2 EXCEPT !.pc = "r_post_dup"]
                    ELSE [r2 EXCEPT !.pc = "r_note"])
    /\ UNCHANGED <<envvars, delivered, chanName, renames, noteDedupe, crmNotes, noteWrites,
                   crmFileCalls, tmpFiles, prompts>>

\* lines 311-314: the message is awaited inside the try of the duplicate check, so
\* its failure is swallowed by the empty catch and the handler goes on to line 316
RPostDup(h) ==
    /\ hs[h].pc = "r_post_dup"
    /\ \E ok \in Outcomes("chat.postMessage") :
         LET r1 == Call(hs[h], "chat.postMessage", "already-added")
         IN  Set(h, IF ok THEN Return(r1) ELSE AfterSwallow(r1))
    /\ UNCHANGED <<envvars, delivered, chanName, renames, noteDedupe, crmNotes,
                   noteWrites, crmFileCalls, tmpFiles, prompts>>

\* lines 316-318: postNoteToPipedrive and, on success, noteDedupe.set
RNote(h) ==
    /\ hs[h].pc = "r_note"
    /\ \E out \in {"success"}
                  \cup (IF "crm.createNote" \in faults THEN {"throw"} ELSE {})
                  \cup (IF "crm.createNote.unsuccessful" \in faults
                        THEN {"unsuccessful"} ELSE {}) :
         LET r  == hs[h]
             k  == CacheKey(r.chan, r.ts)
             r1 == Call(r, "crm.createNote", out)
             success == (out = "success")
         IN  IF out = "throw"
             THEN /\ Set(h, Caught(r1))
                  /\ UNCHANGED <<noteDedupe, crmNotes, noteWrites>>
             ELSE /\ noteDedupe' = DedupeAfterNote(noteDedupe, k, success, clock)
                  /\ crmNotes' = IF success
                                 THEN crmNotes \cup {[deal |-> r.dealId,
                                                      content |-> buildNoteFromSlack(r)]}
                                 ELSE crmNotes
                  /\ noteWrites' = IF success
                                   THEN Append(noteWrites,
                                               [key |-> k, at |-> clock, ev |-> r.ev,
                                                seenWrites |-> r.seenWrites])
                                   ELSE noteWrites
                  /\ Set(h, [r1 EXCEPT !.pc = IF success THEN "r_react" ELSE "r_post_fail"])
    /\ UNCHANGED <<envvars, delivered, chanName, renames, crmFileCalls, tmpFiles, prompts>>

\* line 319: reactions.add, its failure ignored
RReact(h) ==
    /\ hs[h].pc = "r_react"
    /\ \E ok \in Outcomes("reactions.add") :
         Set(h, [Call(hs[h], "reactions.add", IF ok THEN "ok" ELSE "failed")
                   EXCEPT !.pc = "r_post_ok"])
    /\ UNCHANGED <<envvars, delivered, chanName, renames, noteDedupe, crmNotes, noteWrites,
                   crmFileCalls, tmpFiles, prompts>>

\* line 320
RPostOk(h) == PostAndReturn(h, "r_post_ok", "sent")
\* line 322
RPostFail(h) == PostAndReturn(h, "r_post_fail", "failed-to-send")

\* lines 237-245: the archive branch looks the channel up and checks the allow-list
AInfo(h) ==
    /\ hs[h].pc = "a_info"
    /\ \E ok \in Outcomes("conversations.info") :
         LET r1   == Call(hs[h], "conversations.info", hs[h].chan)
             name == chanName[hs[h].chan]
             r2   == [r1 EXCEPT !.channelName = name, !.looked = TRUE,
                                !.dealId = extractDealIdFromChannelName(name)]
         IN  Set(h, IF ~ok THEN Caught(r1)
                    ELSE IF ~isArchiveAllowed(hs[h].user) THEN [r2 EXCEPT !.pc = "a_deny"]
                    ELSE [r2 EXCEPT !.pc = "a_prompt"])
    /\ UNCHANGED <<envvars, delivered, chanName, renames, noteDedupe, crmNotes, noteWrites,
                   crmFileCalls, tmpFiles, prompts>>

\* line 243
ADeny(h) ==
    /\ hs[h].pc = "a_deny"
    /\ \E ok \in Outcomes("chat.postEphemeral") :
         LET r1 == Call(hs[h], "chat.postEphemeral", "not-allowed")
         IN  Set(h, IF ok THEN Return(r1) ELSE Caught(r1))
    /\ UNCHANGED <<envvars, delivered, chanName, renames, noteDedupe, crmNotes, noteWrites,
                   crmFileCalls, tmpFiles, prompts>>

\* lines 247-259: the confirmation prompt, its button carrying {channelId, dealId}
APrompt(h) ==
    /\ hs[h].pc = "a_prompt"
    /\ \E ok \in Outcomes("chat.postEphemeral") :
         LET r  == hs[h]
             r1 == Call(r, "chat.postEphemeral", "archive-prompt")
         IN  /\ prompts' = IF ok
                           THEN prompts \cup {[channelId |-> r.chan, dealId |-> r.dealId,
                                               user |-> r.user]}
                           ELSE prompts
             /\ Set(h, IF ok THEN Return(r1) ELSE Caught(r1))
    /\ UNCHANGED <<envvars, delivered, chanName, renames, noteDedupe, crmNotes, noteWrites,
                   crmFileCalls, tmpFiles>>

ReactionStep(h) ==
    \/ RInfo(h) \/ RPostNoDeal(h) \/ RHist(h) \/ RLookups(h)
    \/ RDownload(h) \/ RUpload(h) \/ RList(h) \/ RPostDup(h)
    \/ RNote(h) \/ RReact(h) \/ RPostOk(h) \/ RPostFail(h)

ArchiveStep(h) == AInfo(h) \/ ADeny(h) \/ APrompt(h)

(* ------- app.action('archive_channel_confirm' / 'archive_channel_cancel') ------ *)
\* the text of the archival note (line 343) holds no link
NoLink == <<"none", "none">>
ArchivalNote(userId, channelId) ==
    [by |-> userId, channel |-> <<>>, author |-> "archived", ts |-> channelId,
     link |-> NoLink, atts |-> <<>>]

\* line 342: `if (dealId)`, the empty string being falsy
NoteWantedMutAlways(dealId) == TRUE
NoteWanted(dealId) == dealId # NoDeal

\* line 330: the listener starts; its first statement awaits ack()
ConfirmStart(a) ==
    [Idle EXCEPT !.kind = "archive_channel_confirm", !.user = a.user, !.value = a.value,
                 !.pc = "k_ack"]

DeliverConfirm(a) ==
    /\ Start(ConfirmStart(a))
    /\ UNCHANGED <<envvars, chanName, renames, noteDedupe, crmNotes, noteWrites,
                   crmFileCalls, tmpFiles, prompts>>

\* the actor presses "Archive channel" on a prompt the bot issued (line 254): the
\* action carries the value of that button and the user the prompt was shown to
ClickConfirm(p) ==
    DeliverConfirm([user |-> p.user,
                    value |-> [json |-> "ok", channelId |-> p.channelId,
                               dealId |-> p.dealId]])

\* lines 331-335: ack, JSON.parse of the value and the check of channelId, all of
\* them before the try of line 337
KAck(h) ==
    /\ hs[h].pc = "k_ack"
    /\ \E ok \in Outcomes("ack") :
         LET r  == hs[h]
             r1 == Call(r, "ack", "")
         IN  Set(h, IF ~ok THEN Escaped(r1)
                    ELSE IF r.value.json = "malformed" THEN Escaped(r1)
                    ELSE IF r.value.json = "absent" \/ r.value.channelId = "none"
                         THEN Return(r1)
                    ELSE [r1 EXCEPT !.pc = "k_notice", !.chan = r.value.channelId,
                                    !.dealId = r.value.dealId])
    /\ UNCHANGED <<envvars, delivered, chanName, renames, noteDedupe, crmNotes, noteWrites,
                   crmFileCalls, tmpFiles, prompts>>

\* line 338: the public notice; its failure goes to the catch of line 346
KNotice(h) ==
    /\ hs[h].pc = "k_notice"
    /\ \E ok \in Outcomes("chat.postMessage") :
         LET r1 == Call(hs[h], "chat.postMessage", "archiving")
         IN  Set(h, [r1 EXCEPT !.pc = IF ok THEN "k_archive" ELSE "k_failed"])
    /\ UNCHANGED <<envvars, delivered, chanName, renames, noteDedupe, crmNotes, noteWrites,
                   crmFileCalls, tmpFiles, prompts>>

\* lines 339-342: conversations.archive, then `if (dealId)`
KArchive(h) ==
    /\ hs[h].pc = "k_archive"
    /\ \E ok \in Outcomes("conversations.archive") :
         LET r  == hs[h]
             r1 == Call(r, "conversations.archive", r.chan)
         IN  /\ archived' = IF ok THEN archived \cup {r.chan} ELSE archived
             /\ Set(h, IF ~ok THEN [r1 EXCEPT !.pc = "k_failed", !.archiveRes = "failed"]
                       ELSE IF NoteWanted(r.dealId)
                            THEN [r1 EXCEPT !.pc = "k_note", !.archiveRes = "ok"]
                       ELSE Return([r1 EXCEPT !.archiveRes = "ok"]))
    /\ UNCHANGED <<xvars, worldvars, clock, ticks, delivered, chanName, renames,
                   noteDedupe, crmNotes, noteWrites, crmFileCalls, tmpFiles, prompts>>

\* lines 341-345: the archival note; the response is not inspected and a rejection
\* is caught by the inner catch (console.warn)
KNote(h) ==
    /\ hs[h].pc = "k_note"
    /\ \E out \in {"success"}
                  \cup (IF "crm.createNote" \in faults THEN {"throw"} ELSE {})
                  \cup (IF "crm.createNote.unsuccessful" \in faults
                        THEN {"unsuccessful"} ELSE {}) :
         LET r  == hs[h]
             r1 == Call(r, "crm.createNote", out)
         IN  /\ crmNotes' = IF out = "success"
                            THEN crmNotes \cup {[deal |-> r.dealId,
                                                 content |-> ArchivalNote(r.user, r.chan)]}
                            ELSE crmNotes
             /\ Set(h, Return(r1))
    /\ UNCHANGED <<envvars, delivered, chanName, renames, noteDedupe, noteWrites,
                   crmFileCalls, tmpFiles, prompts>>

\* lines 346-349: the private error; it is awaited inside the catch block, so its own
\* rejection is caught by nothing
KFailed(h) ==
    /\ hs[h].pc = "k_failed"
    /\ \E ok \in Outcomes("chat.postEphemeral") :
         LET r1 == Call(hs[h], "chat.postEphemeral", "archive-failed")
         IN  Set(h, IF ok THEN Return(r1) ELSE Escaped(r1))
    /\ UNCHANGED <<envvars, delivered, chanName, renames, noteDedupe, crmNotes, noteWrites,
                   crmFileCalls, tmpFiles, prompts>>

\* line 352: the cancel listener; the value of its button is the channel id (line 255)
CancelStart(a) ==
    [Idle EXCEPT !.kind = "archive_channel_cancel", !.user = a.user, !.chan = a.value,
                 !.pc = "x_ack"]

DeliverCancel(a) ==
    /\ Start(CancelStart(a))
    /\ UNCHANGED <<envvars, chanName, renames, noteDedupe, crmNotes, noteWrites,
                   crmFileCalls, tmpFiles, prompts>>

ClickCancel(p) == DeliverCancel([user |-> p.user, value |-> p.channelId])

\* line 353: ack, before the try
XAck(h) ==
    /\ hs[h].pc = "x_ack"
    /\ \E ok \in Outcomes("ack") :
         LET r1 == Call(hs[h], "ack", "")
         IN  Set(h, IF ok THEN [r1 EXCEPT !.pc = "x_post"] ELSE Escaped(r1))
    /\ UNCHANGED <<envvars, delivered, chanName, renames, noteDedupe, crmNotes, noteWrites,
                   crmFileCalls, tmpFiles, prompts>>

\* lines 354-356: the private notice, its failure swallowed
XPost(h) ==
    /\ hs[h].pc = "x_post"
    /\ \E ok \in Outcomes("chat.postEphemeral") :
         Set(h, Return(Call(hs[h], "chat.postEphemeral",
                            IF ok THEN "archive-canceled" ELSE "archive-canceled-failed")))
    /\ UNCHANGED <<envvars, delivered, chanName, renames, noteDedupe, crmNotes, noteWrites,
                   crmFileCalls, tmpFiles, prompts>>

ConfirmStep(h) == KAck(h) \/ KNotice(h) \/ KArchive(h) \/ KNote(h) \/ KFailed(h)

CancelStep(h) == XAck(h) \/ XPost(h)

(* ------------- handleFileShared, file_shared and message --------------- *)
NULL == "none"

\* lines 155-170: the verdict of the ignore policy on a file's metadata
IgnorePolicyMutAnyUploader(file) ==
    IF IgnoreFileTest(file.name) \/ IgnoreFileTest(file.title) THEN "skip-dispatcher-wo"
    ELSE IF file.initial_comment # <<>> /\ IgnoreCommentTest(file.initial_comment)
         THEN "skip-dispatcher-comment"
    ELSE IF file.filetype # "pdf" THEN "skip-non-pdf"
    ELSE "proceed"
IgnorePolicy(file) ==
    LET uploadedByDispatcher ==
            cfg.DISPATCHER_BOT_USER_ID # NULL /\ file.user = cfg.DISPATCHER_BOT_USER_ID
    IN  IF uploadedByDispatcher
           /\ (IgnoreFileTest(file.name) \/ IgnoreFileTest(file.title))
        THEN "skip-dispatcher-wo"
        ELSE IF uploadedByDispatcher /\ file.initial_comment # <<>>
                /\ IgnoreCommentTest(file.initial_comment)
        THEN "skip-dispatcher-comment"
        ELSE IF file.filetype # "pdf" THEN "skip-non-pdf"
        ELSE "proceed"

\* lines 131-144
deriveChannelIdFromFile(file) ==
    IF file.channels # <<>> THEN file.channels[1]
    ELSE IF file.groups # <<>> THEN file.groups[1]
    ELSE IF file.sharesPublic # <<>> THEN file.sharesPublic[1]
    ELSE IF file.sharesPrivate # <<>> THEN file.sharesPrivate[1]
    ELSE NULL

\* handleFileShared returns: the next file of the message loop (line 214), or the end
AfterFile(r) ==
    IF r.idx < Len(r.evFiles)
    THEN [r EXCEPT !.pc = "f_fileinfo", !.idx = @ + 1, !.tmp = NoTmp, !.file = "none",
                   !.target = "none", !.channelName = <<>>, !.dealId = NoDeal,
                   !.looked = FALSE, !.postedTo = "none"]
    ELSE Return(r)

\* lines 200-204: event is [file_id, channel_id]
FileSharedStart(e) ==
    LET r0 == [Idle EXCEPT !.kind = "file_shared", !.chan = e.channel_id]
    IN  IF e.file_id = NULL THEN Return(r0)
        ELSE [r0 EXCEPT !.pc = "f_fileinfo", !.evFiles = <<e.file_id>>, !.idx = 1]

\* lines 211-215: event is [subtype, files, channel]
MessageStart(e) ==
    LET r0 == [Idle EXCEPT !.kind = "message", !.chan = e.channel]
    IN  IF e.subtype # "file_share" \/ e.files = <<>> THEN Return(r0)
        ELSE [r0 EXCEPT !.pc = "f_fileinfo", !.evFiles = e.files, !.idx = 1]

DeliverFileShared(e) ==
    /\ Start(FileSharedStart(e))
    /\ UNCHANGED <<envvars, chanName, renames, noteDedupe, crmNotes, noteWrites,
                   crmFileCalls, tmpFiles, prompts>>

DeliverMessage(e) ==
    /\ Start(MessageStart(e))
    /\ UNCHANGED <<envvars, chanName, renames, noteDedupe, crmNotes, noteWrites,
                   crmFileCalls, tmpFiles, prompts>>

\* lines 147-176: files.info, the ignore policy, the target channel
FFileInfo(h) ==
    /\ hs[h].pc = "f_fileinfo"
    /\ \E ok \in Outcomes("files.info") :
         LET r       == hs[h]
             f       == r.evFiles[r.idx]
             r1      == [Call(r, "files.info", f) EXCEPT !.file = f]
             file    == fileMeta[f]
             verdict == IgnorePolicy(file)
             target  == IF r.chan # NULL THEN r.chan ELSE deriveChannelIdFromFile(file)
         IN  Set(h, IF ~ok THEN AfterFile(Call(r1, "console.error", "files.info"))
                    ELSE IF verdict # "proceed"
                         THEN AfterFile(Call(r1, "console.log", verdict))
                    ELSE IF target = NULL
                         THEN AfterFile(Call(r1, "console.log", "no-channel"))
                    ELSE [r1 EXCEPT !.pc = "f_chinfo", !.target = target])
    /\ UNCHANGED <<envvars, delivered, chanName, renames, noteDedupe, crmNotes,
                   noteWrites, crmFileCalls, tmpFiles, prompts>>

\* lines 178-181
FChInfo(h) ==
    /\ hs[h].pc = "f_chinfo"
    /\ \E ok \in Outcomes("conversations.info") :
         LET r1   == Call(hs[h], "conversations.info", hs[h].target)
             name == chanName[hs[h].target]
             deal == extractDealIdFromChannelName(name)
             r2   == [r1 EXCEPT !.channelName = name, !.dealId = deal, !.looked = TRUE]
         IN  Set(h, IF ~ok THEN Caught(r1)
                    ELSE IF deal = NoDeal THEN [r2 EXCEPT !.pc = "f_post_nodeal"]
                    ELSE [r2 EXCEPT !.pc = "f_dl"])
    /\ UNCHANGED <<envvars, delivered, chanName, renames, noteDedupe, crmNotes,
                   noteWrites, crmFileCalls, tmpFiles, prompts>>

\* lines 182-186
FPostNoDeal(h) ==
    /\ hs[h].pc = "f_post_nodeal"
    /\ \E ok \in Outcomes("chat.postMessage") :
         LET r1 == Call(hs[h], "chat.postMessage", "no-deal-number")
         IN  Set(h, IF ok THEN AfterFile(r1) ELSE Caught(r1))
    /\ UNCHANGED <<envvars, delivered, chanName, renames, noteDedupe, crmNotes,
                   noteWrites, crmFileCalls, tmpFiles, prompts>>

\* line 189
FDownload(h) ==
    /\ hs[h].pc = "f_dl"
    /\ \E ok \in Outcomes("download") :
         LET r   == hs[h]
             r1  == Call(r, "download", r.file)
             tmp == TmpPath(r.file)
         IN  IF ok
             THEN /\ tmpFiles' = tmpFiles \cup {tmp}
                  /\ Set(h, [r1 EXCEPT !.pc = "f_up", !.tmp = tmp,
                                       !.downloaded = @ \cup {tmp}])
             ELSE /\ tmpFiles' = tmpFiles
                  /\ Set(h, Caught(r1))
    /\ UNCHANGED <<envvars, delivered, chanName, renames, noteDedupe, crmNotes,
                   noteWrites, crmFileCalls, prompts>>

\* lines 192-194: a rejected upload throws past the confirmation, to the catch of the
\* event listener
AfterUploadMutIgnoreFailure(r, ok) == [r EXCEPT !.pc = "f_post_ok"]
AfterUpload(r, ok) == IF ok THEN [r EXCEPT !.pc = "f_post_ok"] ELSE Caught(r)

\* lines 190-193
FUpload(h) ==
    /\ hs[h].pc = "f_up"
    /\ \E ok \in Outcomes("crm.createFile") :
         LET r  == hs[h]
             r1 == Call(r, "crm.createFile", r.file)
         IN  /\ crmFileCalls' = Append(crmFileCalls,
                                       FileCall(h, r.dealId, r.file, Renamed(r.channelName), ok))
             /\ Set(h, AfterUpload(r1, ok))
    /\ UNCHANGED <<envvars, delivered, chanName, renames, noteDedupe, crmNotes,
                   noteWrites, tmpFiles, prompts>>

\* lines 194-196: the confirmation, then fs.unlinkSync
FPostOk(h) ==
    /\ hs[h].pc = "f_post_ok"
    /\ \E ok \in Outcomes("chat.postMessage") :
         LET r  == hs[h]
             r1 == [Call(r, "chat.postMessage", "uploaded") EXCEPT !.postedTo = r.target]
         IN  IF ok
             THEN /\ tmpFiles' = tmpFiles \ {r.tmp}
                  /\ Set(h, AfterFile([r1 EXCEPT !.unlinkTried = @ \cup {r.tmp}]))
             ELSE /\ tmpFiles' = tmpFiles
                  /\ Set(h, Caught(r1))
    /\ UNCHANGED <<envvars, delivered, chanName, renames, noteDedupe, crmNotes,
                   noteWrites, crmFileCalls, prompts>>

FileStep(h) ==
    \/ FFileInfo(h) \/ FChInfo(h) \/ FPostNoDeal(h)
    \/ FDownload(h) \/ FUpload(h) \/ FPostOk(h)

(* ------------------------- the environment ----------------------------- *)
N_DEAL57 == <<"d","e","a","l","5","7","-","r","o","o","f">>
N_GEN7 == <<"g","e","n","-","7">>
ChannelNames == {N_DEAL57, N_GEN7}

\* a channel is renamed in Slack (the name is fetched fresh by every handler)
Rename(c) ==
    /\ renames < MaxRenames
    /\ renames' = renames + 1
    /\ \E n \in ChannelNames \ {chanName[c]} : chanName' = [chanName EXCEPT ![c] = n]
    /\ UNCHANGED <<envvars, delivered, noteDedupe, crmNotes, noteWrites,
                   crmFileCalls, tmpFiles, prompts, hs>>

S_SCOPE == <<"S","c","o","p","e",".","p","d","f">>
S_WO == <<"w","o","_","1",".","p","d","f">>
S_PHOTO == <<"p",".","p","n","g">>

File(name, title, filetype, user, comment, channels) ==
    [name |-> name, title |-> title, filetype |-> filetype, user |-> user,
     initial_comment |-> comment, channels |-> channels, groups |-> <<>>,
     sharesPublic |-> <<>>, sharesPrivate |-> <<>>]

InitResolverIdle == xname = <<>> /\ xresult = NoDeal /\ xpc = "returned"

InitState ==
    /\ clock = 1 /\ ticks = 0 /\ renames = 0
    /\ noteDedupe = [k \in Keys |-> 0]
    /\ crmNotes = {} /\ noteWrites = <<>> /\ crmFileCalls = <<>>
    /\ tmpFiles = {} /\ prompts = {} /\ archived = {}
    /\ hs = [h \in Handlers |-> Idle]

(* ------------------------- Spec: the whole bot ------------------------- *)
InitWorld ==
    /\ cfg = [DISPATCHER_BOT_USER_ID |-> "UDISP", REACTION_UPLOAD_FILES |-> TRUE,
              ARCHIVE_ALLOWED |-> {"U2"}]
    /\ faults = {"crm.createFile", "crm.createNote.unsuccessful", "conversations.archive"}
    /\ chanName = [c \in Channels |-> N_DEAL57]
    /\ fileMeta = [f \in FileIds |->
                     IF f = "F1" THEN File(S_SCOPE, S_SCOPE, "pdf", "U1", <<>>, <<"C1">>)
                     ELSE File(S_PHOTO, S_PHOTO, "png", "U1", <<>>, <<"C1">>)]
    /\ msgFiles = [t \in Stamps |-> IF t = "t1" THEN <<"F2">> ELSE <<>>]

Init == InitState /\ InitResolverIdle /\ InitWorld /\ delivered = 0

ReactionEvents ==
    [reaction : {"white_check_mark", "v", "thumbsup"}, chan : Channels, ts : {"t1"},
     user : {"U1"}]
    \cup [reaction : {"v"}, chan : Channels, ts : {"t1"}, user : {"U2"}]
FileSharedEvents == [file_id : {"F1"}, channel_id : {"C1", NULL}]
MessageEvents == [subtype : {"file_share"}, files : {<<"F1", "F2">>}, channel : {"C1"}]

Next ==
    \/ Tick
    \/ \E c \in Channels : Rename(c)
    \/ \E e \in ReactionEvents : DeliverReaction(e)
    \/ \E e \in FileSharedEvents : DeliverFileShared(e)
    \/ \E e \in MessageEvents : DeliverMessage(e)
    \/ \E p \in prompts : ClickConfirm(p)
    \/ \E p \in prompts : ClickCancel(p)
    \/ \E h \in Handlers : ReactionStep(h) \/ ArchiveStep(h) \/ FileStep(h)
    \/ \E h \in Handlers : ConfirmStep(h) \/ CancelStep(h)

Spec == Init /\ [][Next]_vars

(* ------------- SpecNote: check-mark reactions on plain messages -------- *)
InitNote ==
    /\ InitState /\ InitResolverIdle /\ delivered = 0
    /\ cfg = [DISPATCHER_BOT_USER_ID |-> NULL, REACTION_UPLOAD_FILES |-> TRUE,
              ARCHIVE_ALLOWED |-> {}]
    /\ faults = {"crm.createNote", "crm.createNote.unsuccessful", "crm.listNotes",
                 "chat.postMessage"}
    /\ chanName = [c \in Channels |-> N_DEAL57]
    /\ fileMeta = [f \in FileIds |-> File(S_SCOPE, S_SCOPE, "pdf", "U1", <<>>, <<"C1">>)]
    /\ msgFiles = [t \in Stamps |-> <<>>]

NoteEvents ==
    [reaction : {"white_check_mark"}, chan : Channels, ts : {"t1"}, user : {"U1"}]

NextNote ==
    \/ Tick
    \/ \E e \in NoteEvents : DeliverReaction(e)
    \/ \E h \in Handlers :
         \/ RInfo(h) \/ RHist(h) \/ RLookups(h) \/ RList(h) \/ RPostDup(h)
         \/ RNote(h) \/ RReact(h) \/ RPostOk(h) \/ RPostFail(h)

SpecNote == InitNote /\ [][NextNote]_vars

(* ------------- SpecRelay: file and note events, channels renamed ------ *)
InitRelay ==
    /\ InitState /\ InitResolverIdle /\ delivered = 0
    /\ cfg = [DISPATCHER_BOT_USER_ID |-> NULL, REACTION_UPLOAD_FILES |-> TRUE,
              ARCHIVE_ALLOWED |-> {}]
    /\ faults = {"chat.postMessage"}
    /\ chanName \in [Channels -> ChannelNames]
    /\ fileMeta = [f \in FileIds |->
                     IF f = "F1" THEN File(S_SCOPE, S_SCOPE, "pdf", "U1", <<>>, <<"C1">>)
                     ELSE File(S_PHOTO, S_PHOTO, "png", "U1", <<>>, <<"C1">>)]
    /\ msgFiles = [t \in Stamps |-> <<"F2">>]

NextRelay ==
    \/ \E c \in Channels : Rename(c)
    \/ \E e \in NoteEvents : DeliverReaction(e)
    \/ \E e \in [file_id : {"F1"}, channel_id : {"C1"}] : DeliverFileShared(e)
    \/ \E e \in MessageEvents : DeliverMessage(e)
    \/ \E h \in Handlers :
         \/ RInfo(h) \/ RPostNoDeal(h) \/ RHist(h) \/ RLookups(h) \/ RDownload(h)
         \/ RUpload(h) \/ RList(h) \/ RPostDup(h) \/ RNote(h) \/ RReact(h)
         \/ RPostOk(h) \/ FileStep(h)

SpecRelay == InitRelay /\ [][NextRelay]_vars

(* ------------- SpecPolicy: one file event, any metadata ---------------- *)
S_AID == <<"s","e","e"," ","a","i","d",":","7">>
S_AIDX == <<"A","I","D",":","x">>

FileChoices ==
    [name : {S_SCOPE, S_WO}, title : {S_SCOPE, S_WO}, filetype : {"pdf", "png"},
     user : {"UDISP", "U1"}, initial_comment : {<<>>, S_AID, S_AIDX},
     channels : {<<>>, <<"C1">>}, groups : {<<>>}, sharesPublic : {<<>>},
     sharesPrivate : {<<>>}]

InitPolicy ==
    /\ InitState /\ InitResolverIdle /\ delivered = MaxEvents - 1
    /\ \E d \in {NULL, "UDISP"} :
          cfg = [DISPATCHER_BOT_USER_ID |-> d, REACTION_UPLOAD_FILES |-> TRUE,
                 ARCHIVE_ALLOWED |-> {}]
    /\ faults = {"files.info"}
    /\ chanName \in [Channels -> ChannelNames]
    /\ \E m \in FileChoices : fileMeta = [f \in FileIds |-> m]
    /\ msgFiles = [t \in Stamps |-> <<>>]

NextPolicy ==
    \/ \E e \in FileSharedEvents : DeliverFileShared(e)
    \/ \E h \in Handlers : FileStep(h)

SpecPolicy == InitPolicy /\ [][NextPolicy]_vars

(* ------------- the identifier resolver on its own (SpecExtract) -------- *)
Tokens == { <<"d","e","a","l">>, <<"D","e","A","L">>, <<"d","e">>, <<"a","l">>,
            <<"5">>, <<"5","7">>, <<"-">>, <<"x">> }

RECURSIVE Flatten(_)
Flatten(parts) ==
    IF parts = <<>> THEN <<>> ELSE Head(parts) \o Flatten(Tail(parts))

BoundedNames ==
    { Flatten(p) : p \in UNION { [1..n -> Tokens] : n \in 0..MaxParts } }

InitExtract ==
    /\ InitState /\ InitWorld /\ delivered = 0
    /\ xname \in BoundedNames
    /\ xresult = NoDeal
    /\ xpc = "call"

Extract ==
    /\ xpc = "call"
    /\ xresult' = extractDealIdFromChannelName(xname)
    /\ xpc' = "returned"
    /\ UNCHANGED <<xname, clock, ticks, delivered, renames, cfg, faults, chanName, fileMeta,
                   msgFiles, noteDedupe, crmNotes, noteWrites, crmFileCalls,
                   tmpFiles, prompts, archived, hs>>

NextExtract == Extract

SpecExtract == InitExtract /\ [][NextExtract]_vars

(* ------------- SpecArchive: archive reactions and their buttons -------- *)
InitArchive ==
    /\ InitState /\ InitResolverIdle /\ delivered = 0
    /\ \E allowed \in {{}, {"U2"}} :
          cfg = [DISPATCHER_BOT_USER_ID |-> NULL, REACTION_UPLOAD_FILES |-> TRUE,
                 ARCHIVE_ALLOWED |-> allowed]
    /\ faults = {"conversations.info", "conversations.archive", "crm.createNote",
                 "chat.postEphemeral"}
    /\ chanName \in [Channels -> ChannelNames]
    /\ fileMeta = [f \in FileIds |-> File(S_SCOPE, S_SCOPE, "pdf", "U1", <<>>, <<"C1">>)]
    /\ msgFiles = [t \in Stamps |-> <<>>]

ArchiveEvents ==
    [reaction : {"v", "archivebox"}, chan : Channels, ts : {"t1"}, user : {"U1", "U2"}]

NextArchive ==
    \/ \E e \in ArchiveEvents : DeliverReaction(e)
    \/ \E p \in prompts : ClickConfirm(p)
    \/ \E p \in prompts : ClickCancel(p)
    \/ \E h \in Handlers : ArchiveStep(h) \/ ConfirmStep(h) \/ CancelStep(h)

SpecArchive == InitArchive /\ [][NextArchive]_vars

(* ------------- SpecFile: file events, downloads and uploads failing ---- *)
InitFile ==
    /\ InitState /\ InitResolverIdle /\ delivered = 0
    /\ cfg = [DISPATCHER_BOT_USER_ID |-> "UDISP", REACTION_UPLOAD_FILES |-> TRUE,
              ARCHIVE_ALLOWED |-> {}]
    /\ faults = {"download", "crm.createFile"}
    /\ chanName \in [Channels -> ChannelNames]
    /\ fileMeta = [f \in FileIds |->
                     IF f = "F1" THEN File(S_SCOPE, S_SCOPE, "pdf", "U1", <<>>, <<"C1">>)
                     ELSE File(S_PHOTO, S_PHOTO, "png", "U1", <<>>, <<"C1">>)]
    /\ msgFiles = [t \in Stamps |-> <<>>]

NextFile ==
    \/ \E c \in Channels : Rename(c)
    \/ \E e \in FileSharedEvents : DeliverFileShared(e)
    \/ \E e \in MessageEvents : DeliverMessage(e)
    \/ \E h \in Handlers : FileStep(h)

SpecFile == InitFile /\ [][NextFile]_vars

(* ------------- SpecKeys: check marks on two messages, the clock moving - *)
InitKeys ==
    /\ InitState /\ InitResolverIdle /\ delivered = 0
    /\ cfg = [DISPATCHER_BOT_USER_ID |-> NULL, REACTION_UPLOAD_FILES |-> TRUE,
              ARCHIVE_ALLOWED |-> {}]
    /\ faults = {}
    /\ chanName = [c \in Channels |-> N_DEAL57]
    /\ fileMeta = [f \in FileIds |-> File(S_SCOPE, S_SCOPE, "pdf", "U1", <<>>, <<"C1">>)]
    /\ msgFiles = [t \in Stamps |-> <<>>]

KeyEvents ==
    [reaction : {"white_check_mark"}, chan : Channels, ts : Stamps, user : {"U1"}]

NextKeys ==
    \/ Tick
    \/ \E e \in KeyEvents : DeliverReaction(e)
    \/ \E h \in Handlers :
         \/ RInfo(h) \/ RHist(h) \/ RLookups(h) \/ RList(h) \/ RPostDup(h)
         \/ RNote(h) \/ RReact(h) \/ RPostOk(h)

SpecKeys == InitKeys /\ [][NextKeys]_vars

(* ------------- SpecLookup: the metadata lookups of Slack failing -------- *)
InitLookup ==
    /\ InitState /\ InitResolverIdle /\ delivered = 0
    /\ cfg = [DISPATCHER_BOT_USER_ID |-> NULL, REACTION_UPLOAD_FILES |-> TRUE,
              ARCHIVE_ALLOWED |-> {}]
    /\ faults = {"files.info", "users.info", "chat.getPermalink"}
    /\ chanName = [c \in Channels |-> N_DEAL57]
    /\ fileMeta = [f \in FileIds |-> File(S_SCOPE, S_SCOPE, "pdf", "U1", <<>>, <<"C1">>)]
    /\ msgFiles = [t \in Stamps |-> <<>>]

NextLookup ==
    \/ \E e \in KeyEvents : DeliverReaction(e)
    \/ \E e \in [file_id : {"F1"}, channel_id : {"C1"}] : DeliverFileShared(e)
    \/ \E h \in Handlers :
         \/ RInfo(h) \/ RHist(h) \/ RLookups(h) \/ RList(h) \/ RPostDup(h)
         \/ RNote(h) \/ RReact(h) \/ RPostOk(h)
         \/ FFileInfo(h) \/ FChInfo(h) \/ FDownload(h) \/ FUpload(h) \/ FPostOk(h)

SpecLookup == InitLookup /\ [][NextLookup]_vars

(* ------------- SpecAttach: check marks on a message with two files ----- *)
InitAttach ==
    /\ InitState /\ InitResolverIdle /\ delivered = 0
    /\ \E up \in BOOLEAN :
          cfg = [DISPATCHER_BOT_USER_ID |-> NULL, REACTION_UPLOAD_FILES |-> up,
                 ARCHIVE_ALLOWED |-> {}]
    /\ faults = {"download", "crm.createFile"}
    /\ chanName = [c \in Channels |-> N_DEAL57]
    /\ fileMeta = [f \in FileIds |->
                     IF f = "F1" THEN File(S_SCOPE, S_SCOPE, "pdf", "U1", <<>>, <<"C1">>)
                     ELSE File(S_PHOTO, S_PHOTO, "png", "U1", <<>>, <<"C1">>)]
    /\ msgFiles = [t \in Stamps |-> <<"F1", "F2">>]

NextAttach ==
    \/ \E e \in NoteEvents : DeliverReaction(e)
    \/ \E h \in Handlers :
         \/ RInfo(h) \/ RHist(h) \/ RLookups(h) \/ RDownload(h) \/ RUpload(h)
         \/ RList(h) \/ RPostDup(h) \/ RNote(h) \/ RReact(h) \/ RPostOk(h)

SpecAttach == InitAttach /\ [][NextAttach]_vars

(* ============================== claims ================================= *)
SameKeyWrites == { p \in (1..Len(noteWrites)) \X (1..Len(noteWrites)) :
                     p[1] < p[2] /\ noteWrites[p[1]].key = noteWrites[p[2]].key }

IsNoteHandler(r) == r.kind = "reaction_added" /\ r.reaction \in PD_NOTE_REACTIONS

HasCall(r, api) == \E i \in 1..Len(r.calls) : r.calls[i].api = api
LastCall(r) == r.calls[Len(r.calls)]
CrmApis == {"crm.createFile", "crm.listNotes", "crm.createNote"}
NoCrmCall(r) == \A i \in 1..Len(r.calls) : r.calls[i].api \notin CrmApis

\* C1 (as stated): for every key, no two create-note calls succeed within one dedupe
\* window of each other, whatever the interleaving of the reaction handlers.
C1_AtMostOneNotePerWindow ==
    \A p \in SameKeyWrites : noteWrites[p[2]].at - noteWrites[p[1]].at >= DEDUPE_MS

\* C1 (amended): two create-note calls for one key succeed within one dedupe window
\* only if their handlers overlapped, that is, the handler of the later write made
\* its dedupe check before the earlier write completed.
C1_OneNotePerWindowUnlessOverlap ==
    \A p \in SameKeyWrites :
        noteWrites[p[2]].at - noteWrites[p[1]].at < DEDUPE_MS
            => noteWrites[p[2]].seenWrites < p[1]

\* two overlapping handlers have both written the note of one message
C1_Witness ==
    \E p \in SameKeyWrites : noteWrites[p[2]].at - noteWrites[p[1]].at < DEDUPE_MS

\* C7: the dedupe map changes only in the step in which a handler receives the
\* successful response of create-note, and then only the entry of that handler's
\* key, set to the current time; every other step (a failed or unsuccessful
\* create-note, a CRM-side duplicate, an earlier return) leaves the map as it was.
C7_DedupeOnlyOnSuccess ==
    [][ noteDedupe' # noteDedupe =>
          \E h \in Handlers :
              /\ hs[h].pc = "r_note"
              /\ hs'[h].pc = "r_react"
              /\ LastCall(hs'[h]) = [api |-> "crm.createNote", arg |-> "success"]
              /\ noteDedupe' = [noteDedupe EXCEPT
                                  ![CacheKey(hs[h].chan, hs[h].ts)] = clock] ]_vars

\* a create-note came back unsuccessful and the key of the message has no entry
C7_Witness ==
    \E h \in Handlers :
        /\ hs[h].pc = "r_post_fail"
        /\ noteDedupe[CacheKey(hs[h].chan, hs[h].ts)] = 0

\* a successful write for the handler's key had completed when the handler started,
\* less than the dedupe window before
StartedAfterRecentWrite(r) ==
    \E i \in 1..r.seenWrites :
        /\ noteWrites[i].key = CacheKey(r.chan, r.ts)
        /\ r.checkedAt - noteWrites[i].at < DEDUPE_MS

\* C8: a note-trigger handler that starts after a successful note write for its key,
\* less than the dedupe window after it, ends without any call to the CRM or to Slack.
C8_RecentKeyIsSilent ==
    \A h \in Handlers :
        IsNoteHandler(hs[h]) /\ StartedAfterRecentWrite(hs[h])
            => hs[h].pc = "done" /\ hs[h].calls = <<>>

C8_Witness ==
    \E h \in Handlers :
        IsNoteHandler(hs[h]) /\ StartedAfterRecentWrite(hs[h]) /\ hs[h].pc = "done"

\* the list of recent notes the handler received holds a note with its permalink
ListedOwnPermalink(r) ==
    r.listed /\ \E n \in r.recent : n.content.link = r.permalink

\* C9 (as stated): when the recent notes of the deal hold a note whose content
\* contains the permalink of the reacted message, the handler posts the "already
\* added" message into the channel and never calls create-note.
C9_PermalinkDuplicate ==
    \A h \in Handlers :
        ListedOwnPermalink(hs[h]) =>
            /\ ~HasCall(hs[h], "crm.createNote")
            /\ \/ hs[h].pc = "r_post_dup"
               \/ [api |-> "chat.postMessage", arg |-> "already-added"]
                      \in {hs[h].calls[i] : i \in 1..Len(hs[h].calls)}

IsFileHandler(r) == r.kind \in {"file_shared", "message"}

\* C2 (as stated): a file delivered more than once by file events (file_shared
\* redelivered, or file_shared and message for the same file) is sent to the CRM by
\* at most one create-file call per file and record.
C2_FileSyncIdempotent ==
    \A i, j \in 1..Len(crmFileCalls) :
        /\ i < j
        /\ crmFileCalls[i].via \in {"file_shared", "message"}
        /\ crmFileCalls[j].via \in {"file_shared", "message"}
        /\ crmFileCalls[i].file = crmFileCalls[j].file
        => crmFileCalls[i].deal # crmFileCalls[j].deal

\* C3 (as stated): no create-file call is ever made for a file whose filetype is not
\* "pdf", on any of the three paths that relay files.
C3_OnlyPdfUploaded ==
    \A i \in 1..Len(crmFileCalls) : crmFileCalls[i].filetype = "pdf"

\* the calls handleFileShared has made for the file it is working on
LastIndex(r, api) ==
    IF HasCall(r, api)
    THEN CHOOSE i \in 1..Len(r.calls) :
             r.calls[i].api = api /\ \A j \in (i + 1)..Len(r.calls) : r.calls[j].api # api
    ELSE 0
CurrentCalls(r) ==
    IF IsFileHandler(r) THEN SubSeq(r.calls, LastIndex(r, "files.info") + 1, Len(r.calls))
    ELSE r.calls

\* handleFileShared did nothing with the file: no channel lookup, no download, no
\* CRM call and no message
Suppressed(r) ==
    \A i \in 1..Len(r.calls) :
        r.calls[i].api \notin {"conversations.info", "download", "chat.postMessage"}
                               \cup CrmApis

\* the condition of C4 on the metadata of the file and the configured upstream account
SuppressCondition(file) ==
    \/ file.filetype # "pdf"
    \/ /\ cfg.DISPATCHER_BOT_USER_ID # NULL
       /\ file.user = cfg.DISPATCHER_BOT_USER_ID
       /\ \/ IgnoreFileTest(file.name)
          \/ IgnoreFileTest(file.title)
          \/ IgnoreCommentTest(file.initial_comment)

GotMetadata(r) ==
    /\ IsFileHandler(r) /\ r.pc = "done" /\ Len(r.evFiles) = 1
    /\ [api |-> "console.error", arg |-> "files.info"] # r.calls[2]

\* the event names a channel, or the file lists one
ChannelKnown(r) ==
    r.chan # NULL \/ deriveChannelIdFromFile(fileMeta[r.evFiles[1]]) # NULL

\* C4 (as stated): handleFileShared does nothing with a file (no channel lookup, no
\* download, no CRM call, no message) if and only if the file is not a PDF, or the
\* upstream account is configured, uploaded it, and its name, title or comment
\* matches the ignore patterns.
C4_SuppressedIffPolicy ==
    \A h \in Handlers :
        GotMetadata(hs[h]) =>
            (Suppressed(hs[h]) <=> SuppressCondition(fileMeta[hs[h].evFiles[1]]))

\* C4 (amended): the same equivalence for the files whose target channel is known
\* (from the event or from the file's channels, groups or shares); a file with no
\* channel at all is also left alone, whatever its metadata.
C4_SuppressedIffPolicyOrNoChannel ==
    \A h \in Handlers :
        GotMetadata(hs[h]) =>
            (Suppressed(hs[h]) <=>
                \/ SuppressCondition(fileMeta[hs[h].evFiles[1]])
                \/ ~ChannelKnown(hs[h]))

\* a PDF named like a work order, uploaded by another account than the configured
\* upstream account, has been sent to the CRM
C4_Witness ==
    \E h \in Handlers :
        /\ GotMetadata(hs[h])
        /\ cfg.DISPATCHER_BOT_USER_ID # NULL
        /\ fileMeta[hs[h].evFiles[1]].user # cfg.DISPATCHER_BOT_USER_ID
        /\ IgnoreFileTest(fileMeta[hs[h].evFiles[1]].name)
        /\ HasCall(hs[h], "crm.createFile")

\* the positions of s where "deal" (in any case) is directly followed by a digit
DealPositions(s) ==
    { i \in 1..Len(s) :
        /\ i + 4 <= Len(s)
        /\ s[i] \in {"d", "D"} /\ s[i + 1] \in {"e", "E"}
        /\ s[i + 2] \in {"a", "A"} /\ s[i + 3] \in {"l", "L"}
        /\ s[i + 4] \in Digits }
NoDealPattern(s) == DealPositions(s) = {}

\* C5: extractDealIdFromChannelName returns null exactly for the names with no "deal"
\* directly followed by a digit, and otherwise the maximal run of digits after the
\* first such "deal", taken from the name as it is.
C5_DealIdIsFirstDigitRun ==
    xpc = "returned" =>
        IF NoDealPattern(xname) THEN xresult = NoDeal
        ELSE LET i == CHOOSE i \in DealPositions(xname) :
                          \A j \in DealPositions(xname) : i <= j
             IN  \E e \in (i + 4)..Len(xname) :
                     /\ xresult = SubSeq(xname, i + 4, e)
                     /\ \A j \in (i + 4)..e : xname[j] \in Digits
                     /\ e = Len(xname) \/ xname[e + 1] \notin Digits

\* a name with a "deal" that no digit follows before the "DeAL" that counts
C5_Witness ==
    /\ xpc = "returned"
    /\ xresult = <<"5", "7">>
    /\ xname = <<"d","e","a","l","-","D","e","A","L","5","7">>

PostedNoDeal(r) ==
    LET cs == CurrentCalls(r)
    IN  /\ cs # <<>>
        /\ cs[Len(cs)] \in {[api |-> "chat.postMessage", arg |-> "must-include-deal"],
                            [api |-> "chat.postMessage", arg |-> "no-deal-number"]}
NoCrmCallForFile(r) ==
    LET cs == CurrentCalls(r) IN \A i \in 1..Len(cs) : cs[i].api \notin CrmApis

\* C6 (as stated): a file event that reaches the resolver, and every note-trigger
\* reaction event whatever the dedupe cache holds, ends with the notification in the
\* channel and without any CRM call when the channel's name yields no record id.
C6_NoDealNotifiedAlways ==
    \A h \in Handlers :
        LET r == hs[h]
        IN  /\ (IsFileHandler(r) /\ r.looked /\ NoDealPattern(r.channelName)
                  => NoCrmCallForFile(r)
                     /\ (r.pc = "f_post_nodeal" \/ PostedNoDeal(r)))
            /\ (IsNoteHandler(r) /\ r.pc = "done" /\ (r.looked \/ ~r.err)
                /\ NoDealPattern(IF r.looked THEN r.channelName ELSE r.startName)
                  => NoCrmCall(r) /\ PostedNoDeal(r))

\* C6 (amended): a file event that reaches the resolver, and a note-trigger reaction
\* event that has passed the dedupe check (which comes before the resolution), ends
\* with the notification in the channel and without any CRM call when the name the
\* channel lookup returned yields no record id.
C6_NoDealNotifiedAfterLookup ==
    \A h \in Handlers :
        LET r == hs[h]
        IN  (IsFileHandler(r) \/ IsNoteHandler(r)) /\ r.looked
            /\ NoDealPattern(r.channelName)
              => /\ NoCrmCallForFile(r)
                 /\ r.pc \in {"f_post_nodeal", "r_post_nodeal"} \/ PostedNoDeal(r)

\* a reaction on a message of a renamed channel has ended with the notification
C6_Witness ==
    \E h \in Handlers :
        /\ IsNoteHandler(hs[h]) /\ hs[h].looked /\ hs[h].pc = "done"
        /\ NoDealPattern(hs[h].channelName)
        /\ noteWrites # <<>>

\* C10 (as stated): a handler that has ended has attempted to remove every
\* temporary file it downloaded, whether the upload succeeded or failed.
C10_TmpRemovalAttempted ==
    \A h \in Handlers :
        hs[h].pc = "done" => hs[h].downloaded \subseteq hs[h].unlinkTried

IsArchiveReaction(r) == r.kind = "reaction_added" /\ r.reaction \in ARCHIVE_REACTIONS
IsConfirm(r) == r.kind = "archive_channel_confirm"
HasCallWith(r, api, arg) == \E i \in 1..Len(r.calls) : r.calls[i] = [api |-> api, arg |-> arg]
\* the allow-list as the configuration gives it: empty, or holding the actor
Permitted(userId) == cfg.ARCHIVE_ALLOWED = {} \/ userId \in cfg.ARCHIVE_ALLOWED

\* C11: the handler of a reaction of the archive-trigger set never calls
\* conversations.archive and makes no CRM call; conversations.archive is called for a
\* channel c only by the handler of an archive_channel_confirm action whose value names
\* c, and (actions coming from the buttons of issued prompts only) only when a
\* confirmation prompt for c has been issued to an actor the allow-list permits.
C11_ArchiveOnlyOnConfirm ==
    \A h \in Handlers :
        LET r == hs[h]
        IN  /\ IsArchiveReaction(r) =>
                   ~HasCall(r, "conversations.archive") /\ NoCrmCall(r)
            /\ \A i \in 1..Len(r.calls) :
                   r.calls[i].api = "conversations.archive" =>
                       /\ IsConfirm(r)
                       /\ r.value.channelId = r.calls[i].arg
                       /\ \E p \in prompts :
                              p.channelId = r.calls[i].arg /\ Permitted(p.user)

\* a channel has been archived by the handler of a confirm action
C11_Witness ==
    \E h \in Handlers :
        /\ IsConfirm(hs[h]) /\ hs[h].chan \in archived
        /\ HasCallWith(hs[h], "conversations.archive", hs[h].chan)

\* what C12 says of the handler of an archive-trigger reaction that has ended
DenialOrPrompt(r) ==
    IF ~Permitted(r.user)
    THEN /\ Cardinality({i \in 1..Len(r.calls) :
                            r.calls[i] = [api |-> "chat.postEphemeral",
                                          arg |-> "not-allowed"]}) = 1
         /\ ~HasCallWith(r, "chat.postEphemeral", "archive-prompt")
         /\ ~HasCall(r, "conversations.archive")
         /\ NoCrmCall(r)
    ELSE /\ HasCallWith(r, "chat.postEphemeral", "archive-prompt")
         /\ ~r.err => [channelId |-> r.chan,
                       dealId |-> extractDealIdFromChannelName(r.channelName),
                       user |-> r.user] \in prompts

C13_ArchivalNoteBestEffort ==
    \A h \in Handlers :
        LET r == hs[h]
        IN  IsConfirm(r) =>
              /\ HasCall(r, "crm.createNote") =>
                     /\ r.archiveRes = "ok"
                     /\ r.value.dealId # NoDeal
                     /\ r.chan \in archived
              /\ HasCallWith(r, "crm.createNote", "throw") =>
                     /\ r.chan \in archived
                     /\ ~HasCall(r, "chat.postEphemeral")
                     /\ r.pc = "done" /\ ~r.escaped
              /\ r.archiveRes = "failed" =>
                     /\ ~HasCall(r, "crm.createNote")
                     /\ \/ r.pc = "k_failed"
                        \/ HasCall(r, "chat.postEphemeral")

\* the archival note was rejected after the channel had been archived
C13_Witness ==
    \E h \in Handlers :
        /\ IsConfirm(hs[h]) /\ HasCallWith(hs[h], "crm.createNote", "throw")
        /\ hs[h].chan \in archived

\* C14 (as stated): no exception leaves a listener: every failure of an external call
\* and every malformed event or action is caught inside the listener it occurs in.
C14_NoErrorEscapes ==
    \A h \in Handlers : ~hs[h].escaped

\* the record id of a channel name, stated without the scan of the code: the maximal
\* run of digits after the first "deal" (in any case) that a digit follows
DealDigits(s) ==
    IF NoDealPattern(s) THEN NoDeal
    ELSE LET i == CHOOSE i \in DealPositions(s) : \A j \in DealPositions(s) : i <= j
             e == CHOOSE e \in (i + 4)..Len(s) :
                      /\ \A j \in (i + 4)..e : s[j] \in Digits
                      /\ e = Len(s) \/ s[e + 1] \notin Digits
         IN  SubSeq(s, i + 4, e)

\* the position of the first call of api among the calls for the current file; 0 if none
FirstIndex(cs, api) ==
    IF \E i \in 1..Len(cs) : cs[i].api = api
    THEN CHOOSE i \in 1..Len(cs) : cs[i].api = api /\ \A j \in 1..(i - 1) : cs[j].api # api
    ELSE 0

\* the entries of the create-file log made by handler r for its current file
OwnFileCalls(r) ==
    { i \in 1..Len(crmFileCalls) :
        crmFileCalls[i].ev = r.ev /\ crmFileCalls[i].file = r.file }

\* C15: for a PDF that passed the ignore policy, in a channel whose name yields a
\* record id, handleFileShared downloads the file before it calls create-file, calls
\* create-file under the record id of the name the channel lookup returned, posts the
\* confirmation into the channel it looked up and only after create-file returned
\* successfully, posts no confirmation when the download or the upload failed, and,
\* when no call failed, ends having uploaded the file and posted the confirmation.
C15_FileRelayOrder ==
    \A h \in Handlers :
        LET r  == hs[h]
            cs == CurrentCalls(r)
            dl == FirstIndex(cs, "download")
            up == FirstIndex(cs, "crm.createFile")
            po == FirstIndex(cs, "chat.postMessage")
        IN  IsFileHandler(r) /\ r.looked /\ ~NoDealPattern(r.channelName) =>
              /\ fileMeta[r.file].filetype = "pdf"
              /\ up > 0 =>
                   /\ 0 < dl /\ dl < up
                   /\ \A i \in OwnFileCalls(r) :
                          /\ crmFileCalls[i].deal = DealDigits(r.channelName)
                          /\ crmFileCalls[i].name = Renamed(r.channelName)
              /\ po > 0 =>
                   /\ 0 < up /\ up < po
                   /\ cs[po].arg = "uploaded"
                   /\ r.postedTo = cs[FirstIndex(cs, "conversations.info")].arg
                   /\ \A i \in OwnFileCalls(r) : crmFileCalls[i].ok
              /\ r.err /\ cs[Len(cs)].api \in {"download", "crm.createFile"} => po = 0
              /\ r.pc = "done" /\ ~r.err => up > 0 /\ po > 0

\* a PDF of the channel deal57-roof has been relayed and confirmed
C15_Witness ==
    \E h \in Handlers :
        /\ IsFileHandler(hs[h]) /\ hs[h].looked /\ hs[h].pc = "done" /\ ~hs[h].err
        /\ hs[h].channelName = N_DEAL57
        /\ \E i \in OwnFileCalls(hs[h]) :
               crmFileCalls[i].ok /\ crmFileCalls[i].deal = <<"5", "7">>
        /\ HasCallWith(hs[h], "chat.postMessage", "uploaded")

\* the successful writes for key k among the first n of the history
WritesOf(k, n) == { i \in 1..n : noteWrites[i].key = k }
\* what the claim says the dedupe check on k answers at time now, the first n writes
\* of the history having been made
RecentByHistory(k, n, now) ==
    /\ WritesOf(k, n) # {}
    /\ LET last == CHOOSE i \in WritesOf(k, n) : \A j \in WritesOf(k, n) : j <= i
       IN  now - noteWrites[last].at < DEDUPE_MS

\* C16: at every clock reading and for every key, recentlyNoted answers true exactly
\* when the key has been marked and less than DEDUPE_MS (5 minutes) have passed since
\* its entry was written, so it answers false for a key never marked and for an entry
\* one window old or older; the handlers act on that answer; no entry is ever removed
\* and writing the entry of one key changes the entry of no other key.
C16_DedupeCheckSemantics ==
    /\ [](\A k \in Keys : recentlyNoted(k) <=> RecentByHistory(k, Len(noteWrites), clock))
    /\ [](\A h \in Handlers :
            IsNoteHandler(hs[h]) /\ hs[h].pc # "idle" =>
               (hs[h].hit <=> RecentByHistory(CacheKey(hs[h].chan, hs[h].ts),
                                             hs[h].seenWrites, hs[h].checkedAt)))
    /\ [][ /\ \A k \in Keys : noteDedupe[k] # 0 => noteDedupe'[k] # 0
           /\ \A k, l \in Keys :
                  noteDedupe'[k] # noteDedupe[k] /\ l # k => noteDedupe'[l] = noteDedupe[l]
         ]_vars

\* a reaction arrives exactly one window after the note of its message was written
\* and is not taken for a duplicate, while the other message has never been marked
C16_Witness ==
    \E h \in Handlers :
        /\ IsNoteHandler(hs[h]) /\ ~hs[h].hit
        /\ \E i \in 1..hs[h].seenWrites :
               /\ noteWrites[i].key = CacheKey(hs[h].chan, hs[h].ts)
               /\ hs[h].checkedAt - noteWrites[i].at = DEDUPE_MS
        /\ \E k \in Keys : noteDedupe[k] = 0

\* the handler's create-note did not write the note: the request was rejected, or the
\* response was unsuccessful
NoteWriteFailed(r) ==
    HasCallWith(r, "crm.createNote", "throw") \/ HasCallWith(r, "crm.createNote", "unsuccessful")

\* C17 (as stated): whenever create-note fails in the note relay, by an unsuccessful
\* response or by a failing request, the handler posts the failure notification into
\* the thread of the message, and neither posts the success notification nor adds the
\* check-mark reaction.
C17_NoteFailureNotified ==
    \A h \in Handlers :
        IsNoteHandler(hs[h]) /\ NoteWriteFailed(hs[h]) =>
            /\ \/ hs[h].pc = "r_post_fail"
               \/ HasCallWith(hs[h], "chat.postMessage", "failed-to-send")
            /\ ~HasCallWith(hs[h], "chat.postMessage", "sent")
            /\ ~HasCall(hs[h], "reactions.add")

\* files.info failed for the file of a file event that has ended
FileInfoFailed(r) ==
    /\ IsFileHandler(r) /\ r.pc = "done"
    /\ HasCallWith(r, "console.error", "files.info")

\* one of the three lookups of lines 280-284 failed for a reaction that has ended
NoteLookupFailed(r) ==
    /\ IsNoteHandler(r) /\ r.pc = "done" /\ HasCall(r, "chat.getPermalink")
    /\ \/ r.authorName = "<@msg.user>"
       \/ r.reactorName = "<@event.user>"
       \/ r.permalink = UNDEFINED

\* the note path of C18: placeholders are substituted and create-note is called
NoteLookupTolerated ==
    \A h \in Handlers : NoteLookupFailed(hs[h]) => HasCall(hs[h], "crm.createNote")

\* the file path of C18: create-file is called although files.info failed
FileLookupTolerated ==
    \A h \in Handlers : FileInfoFailed(hs[h]) => HasCall(hs[h], "crm.createFile")

\* C18 (as stated): a failed metadata lookup of Slack (files.info on the file path;
\* users.info of the author, users.info of the reactor or chat.getPermalink on the note
\* path) does not end the handling of the event: a placeholder is used and the handler
\* goes on to its CRM write, create-file or create-note.
C18_LookupFailureTolerated ==
    FileLookupTolerated /\ NoteLookupTolerated

\* the arguments of the calls of api that handler r has made, in order
RECURSIVE ArgsOf(_, _)
ArgsOf(cs, api) ==
    IF cs = <<>> THEN <<>>
    ELSE IF Head(cs).api = api THEN <<Head(cs).arg>> \o ArgsOf(Tail(cs), api)
    ELSE ArgsOf(Tail(cs), api)

\* the handler is past the attachment loop of lines 293-301
PastAttachments(r) ==
    r.pc \in {"r_list", "r_post_dup", "r_note", "r_react", "r_post_ok", "r_post_fail"}
    \/ (r.pc = "done" /\ HasCall(r, "crm.listNotes"))

\* C19: with REACTION_UPLOAD_FILES on, the files of the message are attempted one
\* after the other in the order of the list, a failed download or upload of one of them
\* not keeping the handler from the next; after the last one the handler goes on to
\* the note, which is sent by create-note (unless the CRM already holds the note of the
\* message) and lists a descriptor of every file. With REACTION_UPLOAD_FILES off the
\* reaction handler downloads and uploads nothing.
C19_AttachmentsBestEffort ==
    \A h \in Handlers :
        LET r   == hs[h]
            fs  == msgFiles[r.ts]
            dls == ArgsOf(r.calls, "download")
        IN  IsNoteHandler(r) /\ HasCall(r, "chat.getPermalink") =>
              /\ ~r.err
              /\ IF cfg.REACTION_UPLOAD_FILES
                 THEN /\ Len(dls) <= Len(fs)
                      /\ dls = SubSeq(fs, 1, Len(dls))
                      /\ PastAttachments(r) => dls = fs
                 ELSE /\ dls = <<>>
                      /\ ~HasCall(r, "crm.createFile")
                      /\ \A i \in 1..Len(crmFileCalls) :
                             crmFileCalls[i].via # "reaction_added"
              /\ r.pc = "done" =>
                     HasCall(r, "crm.createNote") \/ ListedOwnPermalink(r)
              /\ HasCall(r, "crm.createNote") =>
                     \E n \in crmNotes :
                         /\ n.content.ts = r.ts
                         /\ n.content.atts =
                                [i \in 1..Len(fs) |->
                                    [name |-> fileMeta[fs[i]].name,
                                     filetype |-> fileMeta[fs[i]].filetype]]

\* the download of the first file and the upload of the second failed, and the note
\* with both descriptors has been written
C19_Witness ==
    \E h \in Handlers :
        /\ IsNoteHandler(hs[h]) /\ cfg.REACTION_UPLOAD_FILES
        /\ HasCallWith(hs[h], "crm.createNote", "success")
        /\ ArgsOf(hs[h].calls, "download") = <<"F1", "F2">>
        /\ ArgsOf(hs[h].calls, "crm.createFile") = <<"F2">>
        /\ \A i \in 1..Len(crmFileCalls) :
               crmFileCalls[i].ev = hs[h].ev => ~crmFileCalls[i].ok

\* the list-notes request of the handler failed
ListFailed(r) == HasCall(r, "crm.listNotes") /\ ~r.listed

\* C20: when the list-notes request of the duplicate check fails, the handler neither
\* stops nor posts anything about it: its next call is create-note, made as when the
\* list holds no note with the permalink.
C20_ListFailureSwallowed ==
    \A h \in Handlers :
        LET r == hs[h]
            i == FirstIndex(r.calls, "crm.listNotes")
        IN  IsNoteHandler(r) /\ ListFailed(r) =>
              /\ IF Len(r.calls) = i THEN r.pc = "r_note" /\ ~r.err
                 ELSE r.calls[i + 1].api = "crm.createNote"
              /\ ~HasCallWith(r, "chat.postMessage", "already-added")

\* the list request failed while the CRM held the note of the message, and the note
\* has been written a second time
C20_Witness ==
    \E h \in Handlers :
        /\ IsNoteHandler(hs[h]) /\ ListFailed(hs[h])
        /\ HasCallWith(hs[h], "crm.createNote", "success")
        /\ \E p \in SameKeyWrites : noteWrites[p[2]].ev = hs[h].ev

====
